---- MODULE Spec2Model ----
(***************************************************************************)
(* In-place, length-limited canonical Huffman code length allocation       *)
(* (src/compression/bzip2/huffman-allocator.ts).                            *)
(*                                                                         *)
(* The buffer `array` is a function 0..n-1 -> Int, as in the source.  The  *)
(* program is a single synchronous call; every loop iteration of the      *)
(* source is one action, and first() is a sub-machine entered with         *)
(* CallFirst and left through FirstReturn.                                  *)
(*                                                                         *)
(* Observation variables (never read by the program): freq, encoded,       *)
(* leafParent, written, stale, oob, branch, flsArg.                         *)
(***************************************************************************)
EXTENDS Integers, Sequences, FiniteSets, TLC

\* ------------------------------------------------------------------ bounds
MaxN == 8          \* longest sorted frequency array
MaxFreq == 4       \* largest frequency in a sorted array
MaxLen == 6        \* largest maximumLength
MaxAnyN == 6       \* longest arbitrary (possibly unsorted) array
MaxAnyFreq == 2    \* largest value in an arbitrary array

VARIABLES
    array,            \* the shared buffer
    maximumLength,    \* the caller's limit
    pc,               \* position in the call
    ret,              \* where first() returns to
    headNode, tailNode, topNode,                 \* setExtendedParentPointers
    currentNode, currentDepth,                   \* findNodesToRelocate / pass 3
    firstNode, nextNode, availableNodes, lastNode, i,   \* pass 3
    nodesToMove, insertDepth, nodesLeftToMove,   \* allocateNodeLengthsWithRelocation
    firstI, limit, k, firstNodesToMove,          \* first(array, i, nodesToMove)
    freq,             \* the input frequencies
    encoded,          \* the buffer as pass 1 left it (the input before)
    leafParent,       \* leaf index -> internal node that consumed it
    written,          \* indices pass 3 has overwritten with a length
    stale,            \* <<index, limit>> of reads of an overwritten slot
    oob,              \* indices accessed outside 0..n-1
    branch,           \* which pass-3 variant was dispatched
    flsArg            \* argument handed to Util.fls (-1: not called)

p1vars == <<headNode, tailNode, topNode>>
p3vars == <<firstNode, nextNode, availableNodes, lastNode, i>>
relvars == <<nodesToMove, insertDepth, nodesLeftToMove>>
firstvars == <<firstI, limit, k, firstNodesToMove>>
obsvars == <<freq, encoded, leafParent, written, stale, oob, branch, flsArg>>
vars == <<array, maximumLength, pc, ret, p1vars, currentNode, currentDepth,
          p3vars, relvars, firstvars, obsvars>>

\* ----------------------------------------------------------------- helpers
Length == Cardinality(DOMAIN array)

WriteAt(a, j, v) == IF j \in DOMAIN a THEN [a EXCEPT ![j] = v] ELSE a

OobAfter(j) == IF j \in DOMAIN array THEN oob ELSE oob \cup {j}

StaleAfter(j) == IF j \in written THEN stale \cup {<<j, limit>>} ELSE stale

Max(a, b) == IF a >= b THEN a ELSE b

Min(a, b) == IF a <= b THEN a ELSE b

RECURSIVE Pow2(_)
Pow2(e) == IF e <= 0 THEN 1 ELSE 2 * Pow2(e - 1)

RECURSIVE Fls(_)
Fls(v) == IF v <= 0 THEN 0 ELSE 1 + Fls(v \div 2)

RECURSIVE CeilLog2From(_, _)
CeilLog2From(n, l) == IF Pow2(l) >= n THEN l ELSE CeilLog2From(n, l + 1)

CeilLog2(n) == CeilLog2From(n, 0)

IsSorted(a) == \A j \in DOMAIN a : (j + 1) \in DOMAIN a => a[j] <= a[j + 1]

\* -------------------------------------------------------------------- Init
InitLocals ==
    /\ pc = "start" /\ ret = "none"
    /\ headNode = 0 /\ tailNode = 0 /\ topNode = 0
    /\ currentNode = 0 /\ currentDepth = 0
    /\ firstNode = 0 /\ nextNode = 0 /\ availableNodes = 0 /\ lastNode = 0 /\ i = 0
    /\ nodesToMove = 0 /\ insertDepth = 0 /\ nodesLeftToMove = 0
    /\ firstI = 0 /\ limit = 0 /\ k = 0 /\ firstNodesToMove = 0
    /\ freq = array /\ encoded = array
    /\ leafParent = [j \in DOMAIN array |-> 0]
    /\ written = {} /\ stale = {} /\ oob = {} /\ branch = "none" /\ flsArg = -1

Init ==
    /\ \E n \in 1..MaxN :
         /\ array \in {a \in [0..(n - 1) -> 0..MaxFreq] : IsSorted(a)}
         /\ maximumLength \in CeilLog2(n)..MaxLen
    /\ maximumLength >= 1
    /\ InitLocals

InitAny ==
    /\ \E n \in 1..MaxAnyN : array \in [0..(n - 1) -> 0..MaxAnyFreq]
    /\ maximumLength \in 1..MaxLen
    /\ InitLocals

InitFirst ==
    /\ \E n \in 3..MaxN : array \in {a \in [0..(n - 1) -> 0..MaxFreq] : IsSorted(a)}
    /\ maximumLength = MaxLen
    /\ InitLocals

\* ------------------------------------------------------------ orchestrator
DegenerateLengthsBad(n) == [j \in 0..(n - 1) |-> j + 1]

DegenerateLengths(n) == [j \in 0..(n - 1) |-> 1]

Degenerate ==
    /\ pc = "start" /\ Length \in {1, 2}
    /\ array' = DegenerateLengths(Length)
    /\ branch' = "degenerate"
    /\ pc' = "done"
    /\ UNCHANGED <<maximumLength, ret, p1vars, currentNode, currentDepth, p3vars,
                   relvars, firstvars, freq, encoded, leafParent, written, stale,
                   oob, flsArg>>

\* ------------------------------------------------------------------ pass 1
Pass1Start ==
    /\ pc = "start" /\ Length >= 3
    /\ array' = [array EXCEPT ![0] = array[0] + array[1]]
    /\ headNode' = 0 /\ tailNode' = 1 /\ topNode' = 2
    /\ leafParent' = [leafParent EXCEPT ![0] = 0, ![1] = 0]
    /\ pc' = "p1"
    /\ UNCHANGED <<maximumLength, ret, currentNode, currentDepth, p3vars, relvars,
                   firstvars, freq, encoded, written, stale, oob, branch, flsArg>>

TakeInternalFirstBad(a, h, t) == t >= Cardinality(DOMAIN a)

TakeInternalFirst(a, h, t) == t >= Cardinality(DOMAIN a) \/ a[h] < a[t]

TakeInternalSecond(a, h, tl, t) ==
    t >= Cardinality(DOMAIN a) \/ (h < tl /\ a[h] < a[t])

Pass1Step ==
    /\ pc = "p1" /\ tailNode < Length - 1
    /\ LET n == Length
           in1 == TakeInternalFirst(array, headNode, topNode)
           temp1 == IF in1 THEN array[headNode] ELSE array[topNode]
           a1 == IF in1 THEN [array EXCEPT ![headNode] = tailNode] ELSE array
           h1 == IF in1 THEN headNode + 1 ELSE headNode
           t1 == IF in1 THEN topNode ELSE topNode + 1
           lp1 == IF in1 THEN leafParent ELSE [leafParent EXCEPT ![topNode] = tailNode]
           in2 == TakeInternalSecond(a1, h1, tailNode, t1)
           temp2 == temp1 + (IF in2 THEN a1[h1] ELSE a1[t1])
           a2 == IF in2 THEN [a1 EXCEPT ![h1] = tailNode + n] ELSE a1
           h2 == IF in2 THEN h1 + 1 ELSE h1
           t2 == IF in2 THEN t1 ELSE t1 + 1
           lp2 == IF in2 THEN lp1 ELSE [lp1 EXCEPT ![t1] = tailNode]
       IN /\ array' = [a2 EXCEPT ![tailNode] = temp2]
          /\ headNode' = h2 /\ topNode' = t2 /\ tailNode' = tailNode + 1
          /\ leafParent' = lp2
    /\ UNCHANGED <<maximumLength, pc, ret, currentNode, currentDepth, p3vars, relvars,
                   firstvars, freq, encoded, written, stale, oob, branch, flsArg>>

Pass1Done ==
    /\ pc = "p1" /\ tailNode >= Length - 1
    /\ encoded' = array
    /\ currentNode' = Length - 2 /\ currentDepth' = 1
    /\ pc' = "p2"
    /\ UNCHANGED <<array, maximumLength, ret, p1vars, p3vars, relvars, firstvars,
                   freq, leafParent, written, stale, oob, branch, flsArg>>

\* ----------------------------------------------------------------- first()
\* Entry: let limit = i; let k = array.length - 2.
CallFirst(ci, cm, r) ==
    /\ firstI' = ci /\ limit' = ci /\ k' = Length - 2 /\ firstNodesToMove' = cm
    /\ ret' = r /\ pc' = "first"

\* (array[j] % length) > limit; a read outside the buffer yields undefined,
\* undefined % length is NaN and every comparison with NaN is false.
PointsBeyondBad(a, j, lim) ==
    j \in DOMAIN a /\ (a[j] % Cardinality(DOMAIN a)) > lim + 1

PointsBeyond(a, j, lim) ==
    j \in DOMAIN a /\ (a[j] % Cardinality(DOMAIN a)) > lim

FirstGallop ==
    /\ pc = "first"
    /\ firstI >= firstNodesToMove /\ PointsBeyond(array, firstI, limit)
    /\ k' = firstI
    /\ firstI' = firstI - (limit - firstI + 1)
    /\ stale' = StaleAfter(firstI) /\ oob' = OobAfter(firstI)
    /\ UNCHANGED <<array, maximumLength, pc, ret, p1vars, currentNode, currentDepth,
                   p3vars, relvars, limit, firstNodesToMove, freq, encoded,
                   leafParent, written, branch, flsArg>>

FirstClamp ==
    /\ pc = "first"
    /\ ~(firstI >= firstNodesToMove /\ PointsBeyond(array, firstI, limit))
    /\ firstI' = Max(firstNodesToMove - 1, firstI)
    /\ stale' = IF firstI >= firstNodesToMove THEN StaleAfter(firstI) ELSE stale
    /\ oob' = IF firstI >= firstNodesToMove THEN OobAfter(firstI) ELSE oob
    /\ pc' = "bisect"
    /\ UNCHANGED <<array, maximumLength, ret, p1vars, currentNode, currentDepth,
                   p3vars, relvars, limit, k, firstNodesToMove, freq, encoded,
                   leafParent, written, branch, flsArg>>

FirstBisect ==
    /\ pc = "bisect" /\ k > firstI + 1
    /\ LET temp == (firstI + k) \div 2
       IN /\ IF PointsBeyond(array, temp, limit)
                THEN k' = temp /\ firstI' = firstI
                ELSE firstI' = temp /\ k' = k
          /\ stale' = StaleAfter(temp) /\ oob' = OobAfter(temp)
    /\ UNCHANGED <<array, maximumLength, pc, ret, p1vars, currentNode, currentDepth,
                   p3vars, relvars, limit, firstNodesToMove, freq, encoded,
                   leafParent, written, branch, flsArg>>

FirstReturn ==
    /\ pc = "bisect" /\ ~(k > firstI + 1)
    /\ pc' = ret
    /\ UNCHANGED <<array, maximumLength, ret, p1vars, currentNode, currentDepth,
                   p3vars, relvars, firstvars, obsvars>>

\* ------------------------------------------------------------------ pass 2
FindContinueBad(depth, maxLen, node) == depth < maxLen /\ node > 1

FindContinue(depth, maxLen, node) == depth < maxLen - 1 /\ node > 1

FindStep ==
    /\ pc = "p2" /\ FindContinue(currentDepth, maximumLength, currentNode)
    /\ CallFirst(currentNode - 1, 0, "p2ret")
    /\ UNCHANGED <<array, maximumLength, p1vars, currentNode, currentDepth, p3vars,
                   relvars, obsvars>>

FindReturn ==
    /\ pc = "p2ret"
    /\ currentNode' = k /\ currentDepth' = currentDepth + 1
    /\ pc' = "p2"
    /\ UNCHANGED <<array, maximumLength, ret, p1vars, p3vars, relvars, firstvars,
                   obsvars>>

\* ---------------------------------------------------------------- dispatch
NoRelocationBad(a, nodesToRelocate) == (a[0] % Cardinality(DOMAIN a)) > nodesToRelocate

NoRelocation(a, nodesToRelocate) == (a[0] % Cardinality(DOMAIN a)) >= nodesToRelocate

LastSlotBad(n) == n - 2

LastSlot(n) == n - 1

DispatchUnlimited ==
    /\ pc = "p2" /\ ~FindContinue(currentDepth, maximumLength, currentNode)
    /\ NoRelocation(array, currentNode)
    /\ branch' = "unlimited"
    /\ firstNode' = Length - 2 /\ nextNode' = LastSlot(Length)
    /\ currentDepth' = 1 /\ availableNodes' = 2
    /\ pc' = "p3u"
    /\ UNCHANGED <<array, maximumLength, ret, p1vars, currentNode, lastNode, i,
                   relvars, firstvars, freq, encoded, leafParent, written, stale,
                   oob, flsArg>>

DispatchRelocation ==
    /\ pc = "p2" /\ ~FindContinue(currentDepth, maximumLength, currentNode)
    /\ ~NoRelocation(array, currentNode)
    /\ branch' = "relocation"
    /\ flsArg' = currentNode - 1
    /\ LET depth == maximumLength - Fls(currentNode - 1)
           start == IF depth = 1 THEN 2 ELSE 1
       IN /\ insertDepth' = depth
          /\ nodesToMove' = currentNode
          /\ currentDepth' = start
          /\ nodesLeftToMove' = IF depth = 1 THEN currentNode - 2 ELSE currentNode
          /\ availableNodes' = 2 * start
    /\ firstNode' = Length - 2 /\ nextNode' = LastSlot(Length)
    /\ pc' = "p3r"
    /\ UNCHANGED <<array, maximumLength, ret, p1vars, currentNode, lastNode, i,
                   firstvars, freq, encoded, leafParent, written, stale, oob>>

\* ------------------------------------------------- pass 3, unlimited variant
AllocLevel ==
    /\ pc = "p3u" /\ availableNodes > 0
    /\ lastNode' = firstNode
    /\ CallFirst(firstNode - 1, 0, "p3uret")
    /\ UNCHANGED <<array, maximumLength, p1vars, currentNode, currentDepth, firstNode,
                   nextNode, availableNodes, i, relvars, obsvars>>

AllocAfterFirst ==
    /\ pc = "p3uret"
    /\ firstNode' = k
    /\ i' = availableNodes - (lastNode - k)
    /\ pc' = "p3uw"
    /\ UNCHANGED <<array, maximumLength, ret, p1vars, currentNode, currentDepth,
                   nextNode, availableNodes, lastNode, relvars, firstvars, obsvars>>

AllocWrite ==
    /\ pc = "p3uw" /\ i > 0
    /\ array' = WriteAt(array, nextNode, currentDepth)
    /\ written' = written \cup ({nextNode} \cap DOMAIN array)
    /\ oob' = OobAfter(nextNode)
    /\ nextNode' = nextNode - 1
    /\ i' = i - 1
    /\ UNCHANGED <<maximumLength, pc, ret, p1vars, currentNode, currentDepth, firstNode,
                   availableNodes, lastNode, relvars, firstvars, freq, encoded,
                   leafParent, stale, branch, flsArg>>

AllocNext ==
    /\ pc = "p3uw" /\ i <= 0
    /\ availableNodes' = 2 * (lastNode - firstNode)
    /\ currentDepth' = currentDepth + 1
    /\ pc' = "p3u"
    /\ UNCHANGED <<array, maximumLength, ret, p1vars, currentNode, firstNode, nextNode,
                   lastNode, i, relvars, firstvars, obsvars>>

AllocDone ==
    /\ pc = "p3u" /\ availableNodes <= 0
    /\ pc' = "done"
    /\ UNCHANGED <<array, maximumLength, ret, p1vars, currentNode, currentDepth, p3vars,
                   relvars, firstvars, obsvars>>

\* ------------------------------------------------ pass 3, relocation variant
\* firstNode = (firstNode <= nodesToMove) ? firstNode : first(...)
RelocLevelKeep ==
    /\ pc = "p3r" /\ availableNodes > 0
    /\ firstNode <= nodesToMove
    /\ lastNode' = firstNode
    /\ pc' = "p3roff"
    /\ UNCHANGED <<array, maximumLength, ret, p1vars, currentNode, currentDepth,
                   firstNode, nextNode, availableNodes, i, relvars, firstvars, obsvars>>

RelocLevelCall ==
    /\ pc = "p3r" /\ availableNodes > 0
    /\ ~(firstNode <= nodesToMove)
    /\ lastNode' = firstNode
    /\ CallFirst(firstNode - 1, nodesToMove, "p3rret")
    /\ UNCHANGED <<array, maximumLength, p1vars, currentNode, currentDepth, firstNode,
                   nextNode, availableNodes, i, relvars, obsvars>>

RelocAfterFirst ==
    /\ pc = "p3rret"
    /\ firstNode' = k
    /\ pc' = "p3roff"
    /\ UNCHANGED <<array, maximumLength, ret, p1vars, currentNode, currentDepth,
                   nextNode, availableNodes, lastNode, i, relvars, firstvars, obsvars>>

Offset(depth, insDepth, left) ==
    IF depth >= insDepth THEN Min(left, Pow2(depth - insDepth))
    ELSE IF depth = insDepth - 1 THEN 1 ELSE 0

\* The offset computation, the boundary correction of line 141-143 and the
\* initialisation of the write loop counter.
RelocOffset ==
    /\ pc = "p3roff"
    /\ LET offset == Offset(currentDepth, insertDepth, nodesLeftToMove)
           adjust == currentDepth < insertDepth /\ currentDepth = insertDepth - 1
           bump == adjust /\ firstNode \in DOMAIN array /\ array[firstNode] = lastNode
           fn == IF bump THEN firstNode + 1 ELSE firstNode
       IN /\ firstNode' = fn
          /\ i' = availableNodes - (lastNode - fn + offset)
          /\ stale' = IF adjust /\ firstNode \in written
                         THEN stale \cup {<<firstNode, lastNode - 1>>} ELSE stale
          /\ oob' = IF adjust THEN OobAfter(firstNode) ELSE oob
    /\ pc' = "p3rw"
    /\ UNCHANGED <<array, maximumLength, ret, p1vars, currentNode, currentDepth,
                   nextNode, availableNodes, lastNode, relvars, firstvars, freq,
                   encoded, leafParent, written, branch, flsArg>>

RelocWrite ==
    /\ pc = "p3rw" /\ i > 0
    /\ array' = WriteAt(array, nextNode, currentDepth)
    /\ written' = written \cup ({nextNode} \cap DOMAIN array)
    /\ oob' = OobAfter(nextNode)
    /\ nextNode' = nextNode - 1
    /\ i' = i - 1
    /\ UNCHANGED <<maximumLength, pc, ret, p1vars, currentNode, currentDepth, firstNode,
                   availableNodes, lastNode, relvars, firstvars, freq, encoded,
                   leafParent, stale, branch, flsArg>>

RelocNext ==
    /\ pc = "p3rw" /\ i <= 0
    /\ LET offset == Offset(currentDepth, insertDepth, nodesLeftToMove)
       IN /\ nodesLeftToMove' = nodesLeftToMove - offset
          /\ availableNodes' = 2 * (lastNode - firstNode + offset)
    /\ currentDepth' = currentDepth + 1
    /\ pc' = "p3r"
    /\ UNCHANGED <<array, maximumLength, ret, p1vars, currentNode, firstNode, nextNode,
                   lastNode, i, nodesToMove, insertDepth, firstvars, obsvars>>

RelocDone ==
    /\ pc = "p3r" /\ availableNodes <= 0
    /\ pc' = "done"
    /\ UNCHANGED <<array, maximumLength, ret, p1vars, currentNode, currentDepth, p3vars,
                   relvars, firstvars, obsvars>>

\* --------------------------------------------------------- specifications
\* Test harness: call first() on the pass-1 buffer with arbitrary arguments
\* 0 <= nodesToMove <= i <= n - 3.
ProbeFirst ==
    /\ pc = "p2" /\ ret = "none"
    /\ \E ci \in 0..(Length - 3) : \E cm \in 0..ci : CallFirst(ci, cm, "probed")
    /\ UNCHANGED <<array, maximumLength, p1vars, currentNode, currentDepth, p3vars,
                   relvars, obsvars>>

Next ==
    \/ Degenerate
    \/ Pass1Start \/ Pass1Step \/ Pass1Done
    \/ FindStep \/ FindReturn
    \/ FirstGallop \/ FirstClamp \/ FirstBisect \/ FirstReturn
    \/ DispatchUnlimited \/ DispatchRelocation
    \/ AllocLevel \/ AllocAfterFirst \/ AllocWrite \/ AllocNext \/ AllocDone
    \/ RelocLevelKeep \/ RelocLevelCall \/ RelocAfterFirst \/ RelocOffset
    \/ RelocWrite \/ RelocNext \/ RelocDone

NextFirst ==
    \/ Pass1Start \/ Pass1Step \/ Pass1Done
    \/ ProbeFirst
    \/ FirstGallop \/ FirstClamp \/ FirstBisect \/ FirstReturn

Spec == Init /\ [][Next]_vars

SpecAny == InitAny /\ [][Next]_vars

SpecFirst == InitFirst /\ [][NextFirst]_vars

\* ------------------------------------------------- reference definitions
Done == pc = "done"

ValidInput == IsSorted(freq) /\ maximumLength >= CeilLog2(Length)

Pass1Finished == Length >= 3 /\ pc \notin {"start", "p1"}

Dispatched == branch \in {"unlimited", "relocation"}

\* Depth of internal node j in the tree pass 1 encoded (root n-2 has depth 0).
RECURSIVE NodeDepth(_)
NodeDepth(j) == IF j >= Length - 2 THEN 0 ELSE 1 + NodeDepth(encoded[j] % Length)

LeafDepth(l) == 1 + NodeDepth(leafParent[l])

MaxLeafDepth == CHOOSE d \in 1..Length :
                    /\ \E l \in DOMAIN array : LeafDepth(l) = d
                    /\ \A l \in DOMAIN array : LeafDepth(l) <= d

MaxOf(a) == CHOOSE m \in {a[j] : j \in DOMAIN a} : \A j \in DOMAIN a : a[j] <= m

RECURSIVE KraftSum(_, _, _)
KraftSum(a, top, j) ==
    IF j < 0 THEN 0 ELSE Pow2(top - a[j]) + KraftSum(a, top, j - 1)

RECURSIVE WeightedCost(_, _, _)
WeightedCost(f, a, j) ==
    IF j < 0 THEN 0 ELSE f[j] * a[j] + WeightedCost(f, a, j - 1)

InsertSorted(s, w) ==
    LET below == Cardinality({j \in 1..Len(s) : s[j] < w})
    IN SubSeq(s, 1, below) \o <<w>> \o SubSeq(s, below + 1, Len(s))

\* Textbook Huffman: repeatedly merge the two smallest weights; the cost is
\* the sum of the merged weights.
RECURSIVE HuffmanCost(_)
HuffmanCost(s) ==
    IF Len(s) <= 1 THEN 0
    ELSE LET w == s[1] + s[2]
         IN w + HuffmanCost(InsertSorted(SubSeq(s, 3, Len(s)), w))

FreqSeq == [j \in 1..Length |-> freq[j - 1]]

Pointer(j) == encoded[j] % Length

LinearScan == {kk \in firstNodesToMove..limit : Pointer(kk) > limit}

\* ------------------------------------------------------------------ claims

\* C1: for a sorted array of length n >= 3 and maximumLength >= ceil(log2 n),
\* every entry of the returned buffer is <= maximumLength.
LengthCapRespected ==
    (Done /\ Length >= 3 /\ ValidInput) =>
        \A j \in DOMAIN array : array[j] <= maximumLength

\* C1 witness: the relocation variant ran because the unconstrained tree was
\* deeper than the limit.
LengthCapWitness ==
    /\ Done /\ branch = "relocation" /\ ValidInput
    /\ MaxLeafDepth > maximumLength
    /\ MaxOf(array) = maximumLength

\* C2: for a sorted array of length n >= 2 and a feasible maximumLength the
\* returned lengths satisfy Kraft equality, sum 2^(L - length[i]) = 2^L.
KraftEquality ==
    (Done /\ Length >= 2 /\ ValidInput) =>
        KraftSum(array, MaxOf(array), Length - 1) = Pow2(MaxOf(array))

\* C3: for every valid input the returned lengths are non-increasing in the
\* index.
LengthsNonIncreasing ==
    (Done /\ ValidInput) =>
        \A j \in DOMAIN array : (j + 1) \in DOMAIN array => array[j] >= array[j + 1]

\* C3 witness: a relocated result that really descends.
NonIncreasingWitness ==
    /\ Done /\ ValidInput /\ branch = "relocation"
    /\ array[0] > array[Length - 1]

\* C4: on the unlimited branch every length is the depth of its leaf in the
\* pass-1 tree and the weighted cost equals the reference Huffman cost.
UnlimitedIsMinimumRedundancy ==
    (Done /\ branch = "unlimited" /\ IsSorted(freq)) =>
        /\ \A j \in DOMAIN array : array[j] = LeafDepth(j)
        /\ WeightedCost(freq, array, Length - 1) = HuffmanCost(FreqSeq)

\* C4 witness: an unlimited run on a skewed tree.
UnlimitedWitness ==
    /\ Done /\ branch = "unlimited" /\ IsSorted(freq)
    /\ Length >= 5 /\ array[0] >= 4 /\ array[Length - 1] = 1

\* C5: for valid inputs the dispatch test selects the unlimited assigner
\* exactly when the deepest leaf of the pass-1 tree is within maximumLength.
DispatchIsExact ==
    (Dispatched /\ ValidInput) =>
        (branch = "unlimited" <=> MaxLeafDepth <= maximumLength)

\* C5 witness: the spec's example [1,1,2,2,4] with maximumLength 4.
DispatchWitness ==
    /\ branch = "unlimited" /\ maximumLength = 4 /\ Length = 5
    /\ freq = [j \in 0..4 |-> IF j < 2 THEN 1 ELSE IF j < 4 THEN 2 ELSE 4]

\* C6: no array access of the call uses an index outside 0..n-1, for any
\* array of length n >= 1 and any maximumLength >= 1.
NoOutOfBoundsAccess == oob = {}

\* C7: for n = 1 and n = 2 no pass runs and the result is all ones.
DegenerateSizes ==
    Length <= 2 =>
        /\ pc \in {"start", "done"}
        /\ encoded = freq
        /\ Done => (branch = "degenerate" /\ \A j \in DOMAIN array : array[j] = 1)

\* C7 witness: two symbols with different frequencies.
DegenerateWitness == Done /\ Length = 2 /\ freq[0] < freq[1] /\ array[1] = 1

UnlimitedNeverReadsOverwritten ==
    branch = "unlimited" =>
        /\ written = (nextNode + 1)..(Length - 1)
        /\ stale = {}

\* C9 amended: lengths are written at descending indices from n-1, and
\* overwritten slots are read only by the last first() call, the one with
\* i = -1, which returns 0 whatever those slots hold.
UnlimitedReadsOverwrittenOnlyAtEnd ==
    branch = "unlimited" =>
        /\ written = (nextNode + 1)..(Length - 1)
        /\ \A r \in stale : r[2] = -1
        /\ (pc = "p3uret" /\ limit = -1) => k = 0

\* C9 witness: the last first() call did read an overwritten slot.
OverwrittenReadWitness ==
    Done /\ branch = "unlimited" /\ stale # {} /\ written = DOMAIN array

\* C10: after pass 1 array[0] % n is in 1..n-2, so the relocation branch is
\* only taken with nodesToRelocate >= 2 and Util.fls never receives 0.
RelocationMovesAtLeastTwo ==
    /\ Pass1Finished => (encoded[0] % Length) \in 1..(Length - 2)
    /\ branch = "relocation" => (nodesToMove >= 2 /\ flsArg >= 1)

\* C10 witness: relocation of exactly two nodes, Util.fls(1).
RelocationWitness == branch = "relocation" /\ nodesToMove = 2 /\ flsArg = 1

====
